---- MODULE Spec2Model ----
(***************************************************************************)
(* SkillSwap front end: the client-side data-access and identity layer.    *)
(*   services/api.js       Identity Store, API client, interceptors,       *)
(*                         resource access functions, response transformers*)
(*   contexts/AuthContext  AuthProvider (the Auth Binding)                 *)
(* JavaScript values are tagged records, so that truthiness, null and      *)
(* undefined are computed the way the code computes them.                  *)
(***************************************************************************)
EXTENDS Integers, Sequences, FiniteSets, TLC

VARIABLES
    currentUser,   \* api.js: let currentUser
    user,          \* AuthProvider: useState(null)
    loading,       \* AuthProvider: useState(true)
    phase,         \* AuthProvider lifecycle: "unmounted", "rendered", "mounted"
    got,           \* value returned by the last getCurrentUser() call
    req,           \* the request travelling through apiClient
    response,      \* a response handed to a response transformer
    transformed,   \* what the transformer returned for it
    errorState,    \* useErrorHandler: const [error, setError] = useState(null)
    profileData,   \* a payload handed to updateProfile
    updatedUser,   \* the user updateProfile resolved with
    view,          \* the mounted view of App.jsx with its useState values
    pending,       \* the handlers and effects suspended at an await
    server,        \* the status of each task at the backend
    filterInput,   \* Dashboard: the fetched tasks and the search query
    filteredTasks, \* Dashboard: the tasks it renders for them
    root           \* SkillSwapApp: activeTab, user, loading

vars == <<currentUser, user, loading, phase, got, req, response, transformed,
          errorState, profileData, updatedUser, view, pending, server,
          filterInput, filteredTasks, root>>

authVars == <<user, loading, phase>>
transformVars == <<response, transformed>>
uiVars == <<errorState>>
profileVars == <<profileData, updatedUser>>
viewVars == <<view, pending, server>>
filterVars == <<filterInput, filteredTasks>>
appVars == <<profileVars, viewVars, filterVars, root>>
libVars == <<currentUser, got, req, authVars, transformVars, uiVars, profileVars,
             filterVars>>
clientVars == <<libVars, root>>

(***************************************************************************)
(* JavaScript values                                                       *)
(***************************************************************************)
Undefined == [t |-> "undefined"]
JNull == [t |-> "null"]
Str(s) == [t |-> "string", v |-> s]
Num(n) == [t |-> "number", v |-> n]
Arr(s) == [t |-> "array", v |-> s]

\* x == null || x === undefined
Nullish(x) == x.t \in {"undefined", "null"}

\* ToBoolean(x): undefined, null, 0 and "" are falsy; arrays (also the empty
\* one) and objects are truthy
Truthy(x) ==
    CASE x.t \in {"undefined", "null"} -> FALSE
      [] x.t = "number" -> x.v # 0
      [] x.t = "string" -> x.v # ""
      [] OTHER -> TRUE

\* a || b
Or(a, b) == IF Truthy(a) THEN a ELSE b

(***************************************************************************)
(* Users                                                                   *)
(***************************************************************************)
\* AuthProvider: const testUser = { id: 'test-user-123', full_name: 'Test User', ... }
testUser == [t |-> "object", id |-> Str("test-user-123"), full_name |-> "Test User"]

\* The user objects a caller hands to login / setUser: with an id, with an
\* empty id, without an id, and the test user itself; null is JNull.
UserObjects ==
    { [t |-> "object", id |-> Str("u1"), full_name |-> "Ann"],
      [t |-> "object", id |-> Str(""), full_name |-> "Cy"],
      [t |-> "object", id |-> Undefined, full_name |-> "Dee"],
      testUser }

Users == UserObjects \cup {JNull}

\* u?.id
OptId(u) == IF Nullish(u) THEN Undefined ELSE u.id

(***************************************************************************)
(* api.js: Identity Store                                                  *)
(***************************************************************************)
\* Mutant: the store keeps the first identity it was given
setCurrentUser_OnlyWhenEmpty(u) ==
    currentUser' = IF currentUser = JNull THEN u ELSE currentUser

\* export const setCurrentUser = (user) => { currentUser = user; }
setCurrentUser(u) == currentUser' = u

\* export const getCurrentUser = () => currentUser
getCurrentUser == currentUser

(***************************************************************************)
(* api.js: apiService, the resource access functions                       *)
(***************************************************************************)
\* Each function with its HTTP method, its url as path segments ("{id}" is the
\* ${...} of a template literal, "" the trailing slash) and its parameters
apiService ==
    [ getProfile          |-> [method |-> "GET",    url |-> <<"users", "me">>,               args |-> "none"],
      updateProfile       |-> [method |-> "PUT",    url |-> <<"users", "">>,                 args |-> "data"],
      createUser          |-> [method |-> "POST",   url |-> <<"users", "">>,                 args |-> "data"],
      getOpenTasks        |-> [method |-> "GET",    url |-> <<"tasks", "open">>,             args |-> "params"],
      getMyPostedTasks    |-> [method |-> "GET",    url |-> <<"tasks", "my", "posted">>,     args |-> "params"],
      getMyAcceptedTasks  |-> [method |-> "GET",    url |-> <<"tasks", "my", "accepted">>,   args |-> "params"],
      createTask          |-> [method |-> "POST",   url |-> <<"tasks", "">>,                 args |-> "data"],
      acceptTask          |-> [method |-> "POST",   url |-> <<"tasks", "{id}", "accept">>,   args |-> "id"],
      completeTask        |-> [method |-> "POST",   url |-> <<"tasks", "{id}", "complete">>, args |-> "id"],
      deleteTask          |-> [method |-> "DELETE", url |-> <<"tasks", "{id}">>,             args |-> "id"],
      getMyRatings        |-> [method |-> "GET",    url |-> <<"ratings", "my", "received">>, args |-> "params"],
      getMyGivenRatings   |-> [method |-> "GET",    url |-> <<"ratings", "my", "given">>,    args |-> "params"],
      createRating        |-> [method |-> "POST",   url |-> <<"ratings", "">>,               args |-> "data"],
      flagRating          |-> [method |-> "POST",   url |-> <<"ratings", "{id}", "flag">>,   args |-> "id,reason"],
      createReport        |-> [method |-> "POST",   url |-> <<"reports", "">>,               args |-> "data"],
      getMyReports        |-> [method |-> "GET",    url |-> <<"reports", "my", "sent">>,     args |-> "params"],
      getReportsAgainstMe |-> [method |-> "GET",    url |-> <<"reports", "my", "received">>, args |-> "params"] ]

Operations == DOMAIN apiService

Mutating(op) == apiService[op].method # "GET"

\* {}
EmptyObject == [t |-> "object"]

\* String(x), as a template literal converts its ${x}
ToStringJS(x) ==
    CASE x.t = "string" -> x.v
      [] x.t = "number" -> ToString(x.v)
      [] x.t = "null" -> "null"
      [] x.t = "undefined" -> "undefined"
      [] OTHER -> "[object Object]"

\* Mutant: a plain string where the template literal was meant
Fill_KeepsPlaceholder(url, id) == url

\* `/tasks/${taskId}/accept`
Fill(url, id) ==
    [i \in DOMAIN url |-> IF url[i] = "{id}" THEN ToStringJS(id) ELSE url[i]]

\* The arguments of the apiClient.get / put / post / delete call a function
\* makes when called with (a, b):
\*   ()                 => apiClient.get(url)
\*   (data)             => apiClient.put(url, data), apiClient.post(url, data)
\*   (params = {})      => apiClient.get(url, { params })
\*   (taskId)           => apiClient.post(`...${taskId}...`), apiClient.delete(...)
\*   (ratingId, reason) => apiClient.post(`...`, null, { params: { flag_reason: reason } })
RequestConfig(op, a, b) ==
    LET f == apiService[op]
        base == [method |-> f.method, url |-> f.url,
                 data |-> Undefined, params |-> Undefined]
    IN CASE f.args = "none" -> base
         [] f.args = "data" -> [base EXCEPT !.data = a]
         [] f.args = "params" ->
              [base EXCEPT !.params = IF a = Undefined THEN EmptyObject ELSE a]
         [] f.args = "id" -> [base EXCEPT !.url = Fill(f.url, a)]
         [] f.args = "id,reason" ->
              [base EXCEPT !.url = Fill(f.url, a), !.data = JNull,
                           !.params = [t |-> "object", flag_reason |-> b]]

\* Identifiers, bodies, query parameters and reasons a caller passes
Ids == {Str("T1"), Str("T2"), Undefined}
Bodies == {[t |-> "object", title |-> Str("Fix my bike")]}
Queries == {Undefined, [t |-> "object", limit |-> Num(10)]}
Reasons == {Str("spam")}

\* The argument lists (a, b) a function is called with
Args(op) ==
    LET k == apiService[op].args
    IN CASE k = "none" -> {<<Undefined, Undefined>>}
         [] k = "data" -> {<<d, Undefined>> : d \in Bodies}
         [] k = "params" -> {<<q, Undefined>> : q \in Queries}
         [] k = "id" -> {<<i, Undefined>> : i \in Ids}
         [] k = "id,reason" -> Ids \X Reasons

\* One argument list of each function
SampleArgs(op) ==
    LET k == apiService[op].args
    IN CASE k = "none" -> <<Undefined, Undefined>>
         [] k = "data" -> <<[t |-> "object", title |-> Str("Fix my bike")], Undefined>>
         [] k = "params" -> <<Undefined, Undefined>>
         [] k = "id" -> <<Str("T1"), Undefined>>
         [] k = "id,reason" -> <<Str("T1"), Str("spam")>>

(***************************************************************************)
(* The request travelling through apiClient                                *)
(*   pc: "idle"      no call made                                          *)
(*       "issued"    apiService.<op>() has returned its promise; the       *)
(*                   request interceptor has not run yet (axios runs it in *)
(*                   a later microtask of the promise chain)               *)
(*       "sent"      interceptor done, x-user-id attached, dispatched      *)
(*       "responded" the transport has produced its outcome                *)
(*       "settled"   the response interceptor has run; the caller's        *)
(*                   promise is fulfilled or rejected                      *)
(***************************************************************************)
NoOutcome == [kind |-> "none", status |-> 0, detail |-> Undefined]
NoResult == [state |-> "pending", value |-> NoOutcome]

NoConfig ==
    [method |-> "", url |-> <<>>, data |-> Undefined, params |-> Undefined]

IdleRequest ==
    [ pc |-> "idle", op |-> "getProfile", args |-> <<Undefined, Undefined>>,
      config |-> NoConfig, issuedUser |-> JNull,
      xUserId |-> Undefined, sends |-> 0, outcome |-> NoOutcome,
      result |-> NoResult, logged |-> FALSE ]

\* What the transport can produce for a dispatched request: a 2xx response,
\* an error response (with or without a detail field), no response at all, or
\* the 10 s timeout of axios.create
Outcomes ==
    { [kind |-> "response", status |-> 200, detail |-> Undefined],
      [kind |-> "response", status |-> 401, detail |-> Str("Not authenticated")],
      [kind |-> "response", status |-> 404, detail |-> Str("Task not found")],
      [kind |-> "response", status |-> 500, detail |-> Undefined],
      [kind |-> "network", status |-> 0, detail |-> Undefined],
      [kind |-> "timeout", status |-> 0, detail |-> Undefined] }

\* axios settles the transport's outcome: a 2xx response resolves, everything
\* else rejects
Resolves(o) == o.kind = "response" /\ o.status \in 200..299

\* apiService.<op>(...) => apiClient.<method>(url, ...): the call returns a
\* promise; a new call may be made once the previous one has settled
Call(op, a, b) ==
    /\ req.pc \in {"idle", "settled"}
    /\ req' = [IdleRequest EXCEPT !.pc = "issued", !.op = op,
                                  !.args = <<a, b>>,
                                  !.config = RequestConfig(op, a, b),
                                  !.issuedUser = currentUser]
    /\ UNCHANGED <<currentUser, got>>
    /\ UNCHANGED authVars
    /\ UNCHANGED transformVars
    /\ UNCHANGED uiVars
    /\ UNCHANGED appVars

\* Mutant: the development fallback is sent whoever is logged in
XUserIdHeader_AlwaysFallback(cu) == Str("test-user-123")

\* Mutant: no fallback, the header is whatever currentUser?.id is
XUserIdHeader_NoFallback(cu) == OptId(cu)

\* apiClient.interceptors.request.use((config) => { ... return config; })
XUserIdHeader(cu) ==
    IF Truthy(OptId(cu)) THEN cu.id ELSE Str("test-user-123")

\* The request interceptor runs, then axios dispatches the request once
RequestInterceptor ==
    /\ req.pc = "issued"
    /\ req' = [req EXCEPT !.pc = "sent",
                          !.xUserId = XUserIdHeader(currentUser),
                          !.sends = @ + 1]
    /\ UNCHANGED <<currentUser, got>>
    /\ UNCHANGED authVars
    /\ UNCHANGED transformVars
    /\ UNCHANGED uiVars
    /\ UNCHANGED appVars

\* Mutant: the header is read from the store again when the answer arrives
Transport_RereadsIdentity(o) ==
    /\ req.pc = "sent"
    /\ req' = [req EXCEPT !.pc = "responded", !.outcome = o,
                          !.xUserId = XUserIdHeader(currentUser)]
    /\ UNCHANGED <<currentUser, got>>
    /\ UNCHANGED authVars
    /\ UNCHANGED transformVars
    /\ UNCHANGED uiVars
    /\ UNCHANGED appVars

\* The backend, the network or the timer answers the dispatched request
Transport(o) ==
    /\ req.pc = "sent"
    /\ req' = [req EXCEPT !.pc = "responded", !.outcome = o]
    /\ UNCHANGED <<currentUser, got>>
    /\ UNCHANGED authVars
    /\ UNCHANGED transformVars
    /\ UNCHANGED uiVars
    /\ UNCHANGED appVars

\* (response) => response
OnFulfilled(resp) == [state |-> "fulfilled", value |-> resp]

\* Mutant: the error handler returns the error instead of rejecting with it
OnRejected_Swallows(error) == [state |-> "fulfilled", value |-> error]

\* (error) => { if (error.response?.status === 401) console.error(...);
\*              return Promise.reject(error); }
OnRejected(error) == [state |-> "rejected", value |-> error]

Logs401(error) == error.kind = "response" /\ error.status = 401

\* Mutant: a failed request is sent once more before its error is surfaced
ResponseInterceptor_RetriesOnce ==
    /\ req.pc = "responded"
    /\ req' = IF ~Resolves(req.outcome) /\ req.sends < 2
              THEN [req EXCEPT !.pc = "issued", !.outcome = NoOutcome]
              ELSE [req EXCEPT
                      !.pc = "settled",
                      !.result = IF Resolves(req.outcome)
                                 THEN OnFulfilled(req.outcome)
                                 ELSE OnRejected(req.outcome),
                      !.logged = ~Resolves(req.outcome) /\ Logs401(req.outcome)]
    /\ UNCHANGED <<currentUser, got>>
    /\ UNCHANGED authVars
    /\ UNCHANGED transformVars
    /\ UNCHANGED uiVars
    /\ UNCHANGED appVars

\* Mutant: a 401 logs the user out
ResponseInterceptor_LogsOutOn401 ==
    /\ req.pc = "responded"
    /\ req' = [req EXCEPT
                 !.pc = "settled",
                 !.result = IF Resolves(req.outcome)
                            THEN OnFulfilled(req.outcome)
                            ELSE OnRejected(req.outcome),
                 !.logged = ~Resolves(req.outcome) /\ Logs401(req.outcome)]
    /\ currentUser' = IF Logs401(req.outcome) THEN JNull ELSE currentUser
    /\ UNCHANGED <<got, user, loading, phase>>
    /\ UNCHANGED transformVars
    /\ UNCHANGED uiVars
    /\ UNCHANGED appVars

\* apiClient.interceptors.response.use(onFulfilled, onRejected)
ResponseInterceptor ==
    /\ req.pc = "responded"
    /\ req' = [req EXCEPT
                 !.pc = "settled",
                 !.result = IF Resolves(req.outcome)
                            THEN OnFulfilled(req.outcome)
                            ELSE OnRejected(req.outcome),
                 !.logged = ~Resolves(req.outcome) /\ Logs401(req.outcome)]
    /\ UNCHANGED <<currentUser, got>>
    /\ UNCHANGED authVars
    /\ UNCHANGED transformVars
    /\ UNCHANGED uiVars
    /\ UNCHANGED appVars

\* A caller reads the Identity Store
GetCurrentUser ==
    /\ got' = getCurrentUser
    /\ UNCHANGED <<currentUser, req>>
    /\ UNCHANGED authVars
    /\ UNCHANGED transformVars
    /\ UNCHANGED uiVars
    /\ UNCHANGED appVars

(***************************************************************************)
(* AuthContext: AuthProvider                                               *)
(***************************************************************************)
\* Mutant: only the React state is updated, the API client is forgotten
updateUser_StateOnly(userData) ==
    /\ user' = userData
    /\ currentUser' = currentUser

\* const updateUser = (userData) => { setUser(userData); setCurrentUser(userData); }
updateUser(userData) ==
    /\ user' = userData
    /\ setCurrentUser(userData)

\* First render of <AuthProvider>: the provider returns
\* <AuthContext.Provider ...>{children}</AuthContext.Provider>, so the children
\* render in the same pass, with user = null and loading = true
Render ==
    /\ phase = "unmounted"
    /\ phase' = "rendered"
    /\ UNCHANGED <<currentUser, user, loading, got, req>>
    /\ UNCHANGED transformVars
    /\ UNCHANGED uiVars
    /\ UNCHANGED appVars

\* useEffect(() => { updateUser(testUser); setLoading(false); }, [])
\* runs once, after the first render has been committed
MountEffect ==
    /\ phase = "rendered"
    /\ updateUser(testUser)
    /\ loading' = FALSE
    /\ phase' = "mounted"
    /\ UNCHANGED <<got, req>>
    /\ UNCHANGED transformVars
    /\ UNCHANGED uiVars
    /\ UNCHANGED appVars

\* const login = (userData) => { updateUser(userData); }
login(userData) ==
    /\ phase # "unmounted"
    /\ updateUser(userData)
    /\ UNCHANGED <<loading, phase, got, req>>
    /\ UNCHANGED transformVars
    /\ UNCHANGED uiVars
    /\ UNCHANGED appVars

\* const logout = () => { updateUser(null); }
logout ==
    /\ phase # "unmounted"
    /\ updateUser(JNull)
    /\ UNCHANGED <<loading, phase, got, req>>
    /\ UNCHANGED transformVars
    /\ UNCHANGED uiVars
    /\ UNCHANGED appVars

\* context value: setUser: updateUser
setUser(userData) ==
    /\ phase # "unmounted"
    /\ updateUser(userData)
    /\ UNCHANGED <<loading, phase, got, req>>
    /\ UNCHANGED transformVars
    /\ UNCHANGED uiVars
    /\ UNCHANGED appVars

(***************************************************************************)
(* App.jsx: the mock user and the profile update                           *)
(***************************************************************************)
\* const mockUser = { id: "test-user-123", full_name: "John Doe", ... }
mockUser ==
    [ id |-> Str("test-user-123"), full_name |-> Str("John Doe"),
      skill |-> Str("Web Development"),
      bio |-> Str("Experienced full-stack developer") ]

\* { ...base, ...data }: the keys of both, data's value where data has the key
Spread(base, data) ==
    [k \in DOMAIN base \cup DOMAIN data |->
        IF k \in DOMAIN data THEN data[k] ELSE base[k]]

\* updateProfile: async (data) => ({ ...mockUser, ...data })
updateProfile(data) == Spread(mockUser, data)

\* The partial user payloads a caller passes to updateProfile
PayloadValues ==
    [ id |-> {Str("test-user-123"), Str("user-456")},
      full_name |-> {Str("John Doe"), Str("Jane Roe")},
      skill |-> {Str("Web Development"), Str("Photography")},
      bio |-> {Str(""), Str("Hello")} ]

\* The objects with some of the keys of a user
ProfilePayloads ==
    UNION { { f \in [K -> UNION {PayloadValues[k] : k \in K}] :
                \A k \in K : f[k] \in PayloadValues[k] }
            : K \in SUBSET (DOMAIN PayloadValues) }

NoPayload == <<>>
NotUpdated == [t |-> "none"]

\* A caller awaits apiService.updateProfile(profileData)
UpdateProfile ==
    /\ updatedUser = NotUpdated
    /\ updatedUser' = updateProfile(profileData)
    /\ UNCHANGED <<currentUser, got, req, profileData>>
    /\ UNCHANGED authVars
    /\ UNCHANGED transformVars
    /\ UNCHANGED uiVars
    /\ UNCHANGED viewVars
    /\ UNCHANGED <<filterVars, root>>

(***************************************************************************)
(* App.jsx: the search filter of the Dashboard                             *)
(* A string is a sequence of characters; the characters are those of       *)
(* Chars, of which "A" is the upper case of "a".                           *)
(***************************************************************************)
MaxStr == 2

Chars == {"a", "A", "b"}

RECURSIVE StrsOfLen(_)
StrsOfLen(n) ==
    IF n = 0 THEN {<<>>}
    ELSE {Append(s, c) : s \in StrsOfLen(n - 1), c \in Chars}

StrsUpTo(n) == UNION {StrsOfLen(k) : k \in 0..n}

\* String.prototype.toLowerCase
toLowerCase(s) == [i \in DOMAIN s |-> IF s[i] = "A" THEN "a" ELSE s[i]]

\* String.prototype.includes
includes(s, q) ==
    \E from \in 0..(Len(s) - Len(q)) : SubSeq(s, from + 1, from + Len(q)) = q

\* Mutant: the query is compared as typed
FilterTasks_CaseSensitive(tasks, searchQuery) ==
    LET TagTest(tag) == includes(toLowerCase(tag), searchQuery)
        TaskTest(task) ==
            \/ includes(toLowerCase(task.title), searchQuery)
            \/ \E i \in DOMAIN task.tags : TagTest(task.tags[i])
    IN SelectSeq(tasks, TaskTest)

\* const filteredTasks = tasks.filter(task =>
\*   task.title.toLowerCase().includes(searchQuery.toLowerCase()) ||
\*   task.tags.some(tag => tag.toLowerCase().includes(searchQuery.toLowerCase())))
FilterTasks(tasks, searchQuery) ==
    LET TagTest(tag) == includes(toLowerCase(tag), toLowerCase(searchQuery))
        TaskTest(task) ==
            \/ includes(toLowerCase(task.title), toLowerCase(searchQuery))
            \/ \E i \in DOMAIN task.tags : TagTest(task.tags[i])
    IN SelectSeq(tasks, TaskTest)

\* The tasks a task list route answers with: a title and a sequence of tags
FetchedTasks ==
    [ title : StrsUpTo(MaxStr),
      tags : {<<>>} \cup {<<tag>> : tag \in StrsUpTo(1)} ]

OtherTask == [title |-> <<"A", "b">>, tags |-> <<<<"b">>, <<"a">>>>]

\* The fetched lists: none, one task, one task followed by another
FetchedLists ==
    {<<>>} \cup {<<t>> : t \in FetchedTasks} \cup {<<t, OtherTask>> : t \in FetchedTasks}

FilterInputs == [tasks : FetchedLists, searchQuery : StrsUpTo(MaxStr)]

NoFilterInput == [tasks |-> <<>>, searchQuery |-> <<>>]
NotFiltered == [rendered |-> FALSE, tasks |-> <<>>]

\* Dashboard renders: filteredTasks is computed from tasks and searchQuery
RenderDashboard ==
    /\ filteredTasks = NotFiltered
    /\ filteredTasks' =
          [rendered |-> TRUE,
           tasks |-> FilterTasks(filterInput.tasks, filterInput.searchQuery)]
    /\ UNCHANGED <<currentUser, got, req, filterInput, root>>
    /\ UNCHANGED authVars
    /\ UNCHANGED transformVars
    /\ UNCHANGED uiVars
    /\ UNCHANGED profileVars
    /\ UNCHANGED viewVars

\* const [activeTab, setActiveTab] = useState('dashboard');
\* const [user, setUser] = useState(null);
\* const [loading, setLoading] = useState(true);
InitialRoot == [activeTab |-> "dashboard", user |-> JNull, loading |-> TRUE]

(***************************************************************************)
(* App.jsx: the views                                                      *)
(* One view is mounted at a time (renderContent). A handler or effect that *)
(* awaits an apiService call is a record of `pending` until the awaited    *)
(* promise settles; apiService is the stand-in of App.jsx:61-83 for the    *)
(* client of api.js, so the promise settles at a later step, fulfilled or  *)
(* rejected. The task statuses behind the task routes are those of the     *)
(* backend, which is not part of the front end's source. A state setter    *)
(* called for an unmounted component changes no state (React drops it).    *)
(***************************************************************************)
\* The awaits outstanding at a time
MaxPending == 1

\* Task 1 is mockTasks[0], posted by another user and open; task 2 is the
\* task this user creates
TaskIds == {1, 2}
Statuses == {"open", "accepted", "completed"}

\* switch (activeTab) of renderContent
Views == {"dashboard", "my-tasks", "profile", "ratings", "reports"}

\* useState([]) of tasks: no task listed
NoTasks == [t \in TaskIds |-> "none"]

\* Mutant: the stars count from 0
Stars_FromZero == 0..5

\* [1, 2, 3, 4, 5].map((star) => ...)
Stars == 1..5

\* { to_user_id: '', task_id: '', rating: 5, comment: '' }
InitialNewRating == [rating |-> 5]

\* The names typed into the profile form
Names == {Str("John Doe"), Str("Jane Roe")}

\* The useState initial values of a component
MountState(c) ==
    CASE c = "dashboard" ->
           [name |-> c, tasks |-> NoTasks, loading |-> TRUE]
      [] c = "my-tasks" ->
           [name |-> c, activeTaskTab |-> "posted", tasks |-> NoTasks,
            loading |-> TRUE, showCreateForm |-> FALSE,
            tasksFrom |-> "none", rejected |-> FALSE]
      [] c = "profile" ->
           [name |-> c, user |-> mockUser, isEditing |-> FALSE,
            editForm |-> [full_name |-> mockUser.full_name,
                          skill |-> mockUser.skill,
                          bio |-> Or(mockUser.bio, Str(""))]]
      [] c = "ratings" ->
           [name |-> c, loading |-> TRUE,
            showRatingForm |-> FALSE, newRating |-> InitialNewRating]
      [] c = "reports" ->
           [name |-> c, showReportForm |-> FALSE]

\* A handler or effect suspended at an await of apiService.<op>
\*   stage   "only": an effect's fetch; "mutation": a handler's first call;
\*           "refresh": a handler's second call
\*   alive   the component instance that started it is still mounted
\*   calls   the apiService calls it has made so far
\*   listed, tab   the status the view listed for taskId, and the tab shown,
\*           when the button was clicked
\*   alerted the notifications it has shown so far
Await(handler, stage, op, taskId, data) ==
    [ handler |-> handler, stage |-> stage, op |-> op, taskId |-> taskId,
      data |-> data, alive |-> TRUE, calls |-> 1, listed |-> "none",
      tab |-> "none", alerted |-> {} ]

\* The fetch a component's mount effect starts (Profile and Reports have none)
MountEffect_Fetch(c) ==
    CASE c = "dashboard" ->
           <<Await("Dashboard.fetchTasks", "only", "getOpenTasks", 0, EmptyObject)>>
      [] c = "my-tasks" ->
           <<Await("MyTasks.fetchTasks", "only", "getMyPostedTasks", 0, EmptyObject)>>
      [] c = "ratings" ->
           <<Await("Ratings.fetchRatings", "only", "getMyRatings", 0, EmptyObject)>>
      [] OTHER -> <<>>

\* Unmounting leaves the awaits of the unmounted instance outstanding
Disposed(ps) == [i \in DOMAIN ps |-> [ps[i] EXCEPT !.alive = FALSE]]

\* The mounted view is unmounted, c is mounted and its mount effect runs
Mount(c) ==
    /\ c # view.name
    /\ Len(pending) + Len(MountEffect_Fetch(c)) <= MaxPending
    /\ view' = MountState(c)
    /\ pending' = Disposed(pending) \o MountEffect_Fetch(c)
    /\ UNCHANGED server

\* A parent renders component c in the place of the mounted one
Show(c) ==
    /\ Mount(c)
    /\ UNCHANGED clientVars

\* Dashboard: the Accept button of a listed task (the list is rendered when
\* not loading, one button per task of the list)
AcceptClick(t) ==
    /\ view.name = "dashboard"
    /\ ~view.loading
    /\ view.tasks[t] # "none"
    /\ Len(pending) < MaxPending
    /\ pending' = Append(pending,
          [Await("handleAcceptTask", "mutation", "acceptTask", t, EmptyObject)
              EXCEPT !.listed = view.tasks[t]])
    /\ UNCHANGED <<view, server>>
    /\ UNCHANGED clientVars

\* MyTasks: setActiveTaskTab(key); the effect depends on activeTaskTab and
\* runs again: setLoading(true) and the fetch of the tab
SwitchTab(key) ==
    /\ view.name = "my-tasks"
    /\ key # view.activeTaskTab
    /\ Len(pending) < MaxPending
    /\ view' = [view EXCEPT !.activeTaskTab = key, !.loading = TRUE]
    /\ pending' = Append(pending,
          Await("MyTasks.fetchTasks", "only",
                IF key = "posted" THEN "getMyPostedTasks" ELSE "getMyAcceptedTasks",
                0, EmptyObject))
    /\ UNCHANGED server
    /\ UNCHANGED clientVars

\* MyTasks: Create Task button and the form's Cancel
ShowCreateForm(b) ==
    /\ view.name = "my-tasks"
    /\ view.showCreateForm # b
    /\ view' = [view EXCEPT !.showCreateForm = b]
    /\ UNCHANGED <<pending, server>>
    /\ UNCHANGED clientVars

\* MyTasks: submit of the create form
CreateTaskSubmit ==
    /\ view.name = "my-tasks"
    /\ view.showCreateForm
    /\ Len(pending) < MaxPending
    /\ pending' = Append(pending,
          Await("handleCreateTask", "mutation", "createTask", 0, EmptyObject))
    /\ UNCHANGED <<view, server>>
    /\ UNCHANGED clientVars

\* Mutant: the button is shown for every task of the 'accepted' tab
CanComplete_AnyStatus(tab, status) == tab = "accepted"

\* {activeTaskTab === 'accepted' && task.status === 'accepted' && (<button ...
CanComplete(tab, status) == tab = "accepted" /\ status = "accepted"

\* MyTasks: the Mark Complete button of a listed task
CompleteClick(t) ==
    /\ view.name = "my-tasks"
    /\ ~view.loading
    /\ view.tasks[t] # "none"
    /\ CanComplete(view.activeTaskTab, view.tasks[t])
    /\ Len(pending) < MaxPending
    /\ pending' = Append(pending,
          [Await("handleCompleteTask", "mutation", "completeTask", t, EmptyObject)
              EXCEPT !.listed = view.tasks[t], !.tab = view.activeTaskTab])
    /\ UNCHANGED <<view, server>>
    /\ UNCHANGED clientVars

\* Profile: Edit Profile button and Cancel
SetIsEditing(b) ==
    /\ view.name = "profile"
    /\ view.isEditing # b
    /\ view' = [view EXCEPT !.isEditing = b]
    /\ UNCHANGED <<pending, server>>
    /\ UNCHANGED clientVars

\* Profile: setEditForm({...editForm, full_name: e.target.value})
EditFullName(n) ==
    /\ view.name = "profile"
    /\ view.isEditing
    /\ n # view.editForm.full_name
    /\ view' = [view EXCEPT !.editForm.full_name = n]
    /\ UNCHANGED <<pending, server>>
    /\ UNCHANGED clientVars

\* Profile: submit of the edit form
SaveProfileSubmit ==
    /\ view.name = "profile"
    /\ view.isEditing
    /\ Len(pending) < MaxPending
    /\ pending' = Append(pending,
          Await("handleSaveProfile", "mutation", "updateProfile", 0, view.editForm))
    /\ UNCHANGED <<view, server>>
    /\ UNCHANGED clientVars

\* Ratings: Rate Someone button and Cancel
ShowRatingForm(b) ==
    /\ view.name = "ratings"
    /\ view.showRatingForm # b
    /\ view' = [view EXCEPT !.showRatingForm = b]
    /\ UNCHANGED <<pending, server>>
    /\ UNCHANGED clientVars

\* Ratings: onClick={() => setNewRating({...newRating, rating: star})}
StarClick(star) ==
    /\ view.name = "ratings"
    /\ view.showRatingForm
    /\ star # view.newRating.rating
    /\ view' = [view EXCEPT !.newRating.rating = star]
    /\ UNCHANGED <<pending, server>>
    /\ UNCHANGED clientVars

\* Ratings: submit of the rating form
CreateRatingSubmit ==
    /\ view.name = "ratings"
    /\ view.showRatingForm
    /\ Len(pending) < MaxPending
    /\ pending' = Append(pending,
          Await("handleCreateRating", "mutation", "createRating", 0, view.newRating))
    /\ UNCHANGED <<view, server>>
    /\ UNCHANGED clientVars

\* Reports: Submit Report button and Cancel
ShowReportForm(b) ==
    /\ view.name = "reports"
    /\ view.showReportForm # b
    /\ view' = [view EXCEPT !.showReportForm = b]
    /\ UNCHANGED <<pending, server>>
    /\ UNCHANGED clientVars

\* Reports: submit of the report form
CreateReportSubmit ==
    /\ view.name = "reports"
    /\ view.showReportForm
    /\ Len(pending) < MaxPending
    /\ pending' = Append(pending,
          Await("handleCreateReport", "mutation", "createReport", 0, EmptyObject))
    /\ UNCHANGED <<view, server>>
    /\ UNCHANGED clientVars

\* ---- the backend behind the task routes ----
\* The first identifier without a task, 0 when the backend is full
FreeTaskId ==
    IF \E t \in TaskIds : server[t] = "none"
    THEN CHOOSE t \in TaskIds : server[t] = "none" /\ \A u \in TaskIds : server[u] = "none" => t <= u
    ELSE 0

\* Whether the backend can answer the call with success
Accepts(p) ==
    CASE p.op = "acceptTask" -> server[p.taskId] = "open"
      [] p.op = "completeTask" -> server[p.taskId] = "accepted"
      [] p.op = "createTask" -> FreeTaskId # 0
      [] OTHER -> TRUE

\* The task statuses after the backend has handled the call
Handled(p) ==
    CASE p.op = "acceptTask" -> [server EXCEPT ![p.taskId] = "accepted"]
      [] p.op = "completeTask" -> [server EXCEPT ![p.taskId] = "completed"]
      [] p.op = "createTask" -> [server EXCEPT ![FreeTaskId] = "open"]
      [] OTHER -> server

\* Task 1 is posted by another user, the tasks created here by this user
PostedByMe(t) == t # 1

\* response.tasks of a task list route
TaskList(op) ==
    [t \in TaskIds |->
        IF \/ op = "getOpenTasks" /\ server[t] = "open"
           \/ op = "getMyPostedTasks" /\ PostedByMe(t) /\ server[t] # "none"
           \/ op = "getMyAcceptedTasks" /\ server[t] \in {"accepted", "completed"}
        THEN server[t] ELSE "none"]

\* ---- the continuations of the handlers ----
\* The "// Refresh" call that follows a handler's first call
RefreshOf(handler) ==
    CASE handler = "handleAcceptTask" -> "getOpenTasks"
      [] handler = "handleCreateTask" -> "getMyPostedTasks"
      [] handler = "handleCompleteTask" -> "getMyAcceptedTasks"
      [] handler = "handleCreateRating" -> "getMyRatings"
      [] OTHER -> "none"

\* The alert(...) calls of the continuation: 'Task accepted successfully!'
\* and the like after the first call, 'Error accepting task' and the like in
\* the catch block; the effects log to the console instead
Alerts(p, ok) ==
    CASE p.stage = "only" -> {}
      [] p.stage = "mutation" /\ ok -> {"success"}
      [] p.stage = "refresh" /\ ok -> {}
      [] OTHER -> {"error"}

\* try { await first; ...; await refresh; ... }: what the handler awaits
\* after the awaited call has fulfilled
Try(p) ==
    IF p.stage = "mutation" /\ RefreshOf(p.handler) # "none"
    THEN <<[p EXCEPT !.stage = "refresh", !.op = RefreshOf(p.handler),
                     !.calls = p.calls + 1,
                     !.alerted = p.alerted \cup Alerts(p, TRUE)]>>
    ELSE <<>>

\* Mutant: the catch block issues the failed call once more
Catch_Retries(p) ==
    IF p.calls < 2 THEN <<[p EXCEPT !.calls = p.calls + 1]>> ELSE <<>>

\* catch (error) { alert(...) } or console.error(...): no further call
Catch(p) == <<>>

\* Whether the continuation calls a state setter of its component
CallsSetter(p, ok) ==
    CASE p.stage = "only" -> TRUE
      [] p.stage = "refresh" -> ok
      [] p.stage = "mutation" ->
           ok /\ p.handler \in {"handleCreateTask", "handleSaveProfile",
                                "handleCreateRating", "handleCreateReport"}

\* Mutant: setLoading(false) at the end of the try block
AfterFetch_NoFinally(p, ok) ==
    IF ~ok THEN view
    ELSE IF p.handler = "Ratings.fetchRatings"
    THEN [view EXCEPT !.loading = FALSE]
    ELSE [view EXCEPT !.tasks = TaskList(p.op), !.loading = FALSE]

\* try { const response = await ...; setTasks(response.tasks); }
\* catch (error) { console.error(...); } finally { setLoading(false); }
AfterFetch(p, ok) ==
    LET fetched == IF ok /\ p.handler # "Ratings.fetchRatings"
                   THEN [view EXCEPT !.tasks = TaskList(p.op)]
                   ELSE view
    IN [fetched EXCEPT !.loading = FALSE]

\* The state of the mounted component after the continuation's setter calls
AfterSetters(p, ok) ==
    IF p.stage = "only" THEN AfterFetch(p, ok)
    ELSE IF ~ok THEN view
    ELSE IF p.stage = "refresh"
    THEN IF p.handler = "handleCreateRating"
         THEN view
         ELSE [view EXCEPT !.tasks = TaskList(p.op)]
    ELSE CASE p.handler = "handleCreateTask" ->
                [view EXCEPT !.showCreateForm = FALSE]
           [] p.handler = "handleSaveProfile" ->
                [view EXCEPT !.user = updateProfile(p.data), !.isEditing = FALSE]
           [] p.handler = "handleCreateRating" ->
                [view EXCEPT !.showRatingForm = FALSE,
                             !.newRating = InitialNewRating]
           [] p.handler = "handleCreateReport" ->
                [view EXCEPT !.showReportForm = FALSE]
           [] OTHER -> view

\* Bookkeeping for MyTasks: which call the displayed list came from, and
\* whether a call of this instance was rejected
Noted(v, p, ok) ==
    IF v.name # "my-tasks" THEN v
    ELSE IF ~ok THEN [v EXCEPT !.rejected = TRUE]
    ELSE IF p.stage \in {"only", "refresh"} THEN [v EXCEPT !.tasksFrom = p.op]
    ELSE v

Without(ps, i) == [j \in 1..(Len(ps) - 1) |-> IF j < i THEN ps[j] ELSE ps[j + 1]]

\* The promise awaited by pending[i] settles, fulfilled (ok) or rejected, and
\* the handler runs on to its next await or to its end. A setter called for
\* an unmounted component changes no state.
Settle(i, ok) ==
    LET p == pending[i]
    IN /\ ok => Accepts(p)
       /\ server' = IF ok THEN Handled(p) ELSE server
       /\ pending' = Without(pending, i) \o (IF ok THEN Try(p) ELSE Catch(p))
       /\ view' = IF p.alive THEN Noted(AfterSetters(p, ok), p, ok) ELSE view
       /\ UNCHANGED clientVars

\* ---- SkillSwapApp: the root component ----
\* Mutant: the navigation also offers the reports tab
HeaderTabs_WithReports == {"dashboard", "my-tasks", "profile", "ratings", "reports"}

\* ['dashboard', 'my-tasks', 'profile', 'ratings'].map((tab) => <button ...
HeaderTabs == {"dashboard", "my-tasks", "profile", "ratings"}

\* switch (activeTab) { case ...: return <...>; default: return <Dashboard />; }
renderContent(activeTab) ==
    IF activeTab \in Views THEN activeTab ELSE "dashboard"

\* if (loading) return the spinner: no view is mounted
Unmounted == [name |-> "none"]

\* The root's effect: fetchUserProfile settles; setUser(profile) when it
\* fulfilled, setLoading(false) in either case; the header and the view of the
\* active tab are rendered
FetchUserProfile(ok) ==
    /\ root.loading
    /\ root' = [root EXCEPT !.user = IF ok THEN mockUser ELSE root.user,
                            !.loading = FALSE]
    /\ Mount(renderContent(root.activeTab))
    /\ UNCHANGED libVars

\* Header: onClick={() => setActiveTab(tab)}
Nav(tab) ==
    /\ ~root.loading
    /\ root' = [root EXCEPT !.activeTab = tab]
    /\ Mount(renderContent(tab))
    /\ UNCHANGED libVars

\* The application starts on the dashboard with task 1 open
InitApp ==
    /\ view = MountState("dashboard")
    /\ pending = MountEffect_Fetch("dashboard")
    /\ server = [t \in TaskIds |-> IF t = 1 THEN "open" ELSE "none"]
    /\ profileData = NoPayload
    /\ updatedUser = NotUpdated
    /\ filterInput = NoFilterInput
    /\ filteredTasks = NotFiltered
    /\ root = InitialRoot

(***************************************************************************)
(* Specification of the identity and request layer                         *)
(***************************************************************************)
NoResponse == [data |-> Undefined]
NotTransformed == [t |-> "none"]

Init ==
    /\ currentUser = JNull
    /\ user = JNull
    /\ loading = TRUE
    /\ phase = "unmounted"
    /\ got = JNull
    /\ req = IdleRequest
    /\ response = NoResponse
    /\ transformed = NotTransformed
    /\ errorState = JNull
    /\ InitApp

Next ==
    \/ Render
    \/ MountEffect
    \/ \E u \in Users : login(u)
    \/ logout
    \/ \E u \in Users : setUser(u)
    \/ GetCurrentUser
    \/ \E op \in Operations : Call(op, SampleArgs(op)[1], SampleArgs(op)[2])
    \/ RequestInterceptor
    \/ \E o \in Outcomes : Transport(o)
    \/ ResponseInterceptor

Spec == Init /\ [][Next]_vars

(***************************************************************************)
(* useErrorHandler, and the resource access functions with their arguments *)
(***************************************************************************)
\* error.response?.data?.detail: an error without a response has none
DetailOf(error) ==
    IF error.kind = "response" THEN error.detail ELSE Undefined

\* Mutant: the server's detail is ignored
handleError_AlwaysGeneric(error) == Str("An unexpected error occurred")

\* const handleError = (error) => {
\*   setError(error.response?.data?.detail || 'An unexpected error occurred'); }
\* the value handed to setError
handleError(error) == Or(DetailOf(error), Str("An unexpected error occurred"))

\* A caller's catch block hands the rejection of its call to handleError
HandleError ==
    /\ req.pc = "settled"
    /\ req.result.state = "rejected"
    /\ errorState' = handleError(req.result.value)
    /\ UNCHANGED <<currentUser, got, req>>
    /\ UNCHANGED authVars
    /\ UNCHANGED transformVars
    /\ UNCHANGED appVars

\* const clearError = () => setError(null)
ClearError ==
    /\ errorState' = JNull
    /\ UNCHANGED <<currentUser, got, req>>
    /\ UNCHANGED authVars
    /\ UNCHANGED transformVars
    /\ UNCHANGED appVars

NextR ==
    \/ \E op \in Operations : \E ab \in Args(op) : Call(op, ab[1], ab[2])
    \/ RequestInterceptor
    \/ \E o \in Outcomes : Transport(o)
    \/ ResponseInterceptor
    \/ HandleError
    \/ ClearError

SpecR == Init /\ [][NextR]_vars

(***************************************************************************)
(* api.js: response transformers                                           *)
(***************************************************************************)
MaxLen == 2

T1 == [t |-> "object", task_id |-> Str("1")]
T2 == [t |-> "object", task_id |-> Str("2")]

\* Rating objects of a payload
R1 == [t |-> "object", rating_id |-> Str("1"), rating |-> Num(5)]
R2 == [t |-> "object", rating_id |-> Str("2"), rating |-> Num(4)]

\* The sequences of at most n elements of S
RECURSIVE SeqsOver(_, _)
SeqsOver(S, n) ==
    IF n = 0 THEN {<<>>}
    ELSE LET shorter == SeqsOver(S, n - 1)
         IN shorter \cup { Append(q, e) : q \in {x \in shorter : Len(x) = n - 1},
                                          e \in S }

SeqsUpTo(n) == SeqsOver({T1, T2}, n)

\* A list field of a payload: absent, null, or an array of at most MaxLen tasks
ListFields == {Undefined, JNull} \cup { Arr(q) : q \in SeqsUpTo(MaxLen) }

CountFields == {Undefined} \cup { Num(n) : n \in 0..(MaxLen + 1) }

\* response.data as the backend may send it for a task route; a field that
\* is Undefined is a field the payload does not have
Payloads ==
    [ t : {"object"}, tasks : ListFields, items : ListFields,
      count : CountFields, message : {Undefined, Str("ok")},
      task_id : {Undefined, Str("x")},
      ratings : {Undefined}, statistics : {Undefined} ]

\* The ratings field of a payload: absent, null, or an array of ratings
RatingListFields ==
    {Undefined, JNull} \cup { Arr(q) : q \in SeqsOver({R1, R2}, MaxLen) }

\* The statistics field of a payload: absent, null, or the backend's figures
StatisticsFields ==
    { Undefined, JNull,
      [t |-> "object", average_rating |-> Num(4), total_ratings |-> Num(2)],
      [t |-> "object", average_rating |-> Num(0), total_ratings |-> Num(0)] }

\* response.data as the backend may send it for a rating route
RatingPayloads ==
    [ t : {"object"}, tasks : {Undefined}, items : {Undefined},
      count : {Undefined}, message : {Undefined}, task_id : {Undefined},
      ratings : RatingListFields, statistics : StatisticsFields ]

\* {}
EmptyPayload ==
    [ t |-> "object", tasks |-> Undefined, items |-> Undefined,
      count |-> Undefined, message |-> Undefined, task_id |-> Undefined,
      ratings |-> Undefined, statistics |-> Undefined ]

Responses ==
    { [data |-> d] : d \in Payloads \cup RatingPayloads \cup {JNull, Undefined} }

\* Reading a property of null or undefined throws
TypeError == [t |-> "TypeError"]

\* x.length
LengthOf(x) == IF x.t = "array" THEN Num(Len(x.v)) ELSE Undefined

\* Mutant: items is preferred over tasks
transformTaskResponse_ItemsFirst(resp) ==
    IF Nullish(resp.data) THEN TypeError
    ELSE LET d == resp.data
         IN [ t |-> "object",
              tasks |-> Or(Or(d.items, d.tasks), Arr(<<d>>)),
              count |-> Or(d.count,
                           IF Truthy(d.tasks) THEN LengthOf(d.tasks) ELSE Num(1)),
              message |-> d.message ]

\* export const transformTaskResponse = (response) => ({
\*   tasks: response.data.tasks || response.data.items || [response.data],
\*   count: response.data.count || (response.data.tasks ? response.data.tasks.length : 1),
\*   message: response.data.message })
transformTaskResponse(resp) ==
    IF Nullish(resp.data) THEN TypeError
    ELSE LET d == resp.data
         IN [ t |-> "object",
              tasks |-> Or(Or(d.tasks, d.items), Arr(<<d>>)),
              count |-> Or(d.count,
                           IF Truthy(d.tasks) THEN LengthOf(d.tasks) ELSE Num(1)),
              message |-> d.message ]

\* { average_rating: 0, total_ratings: 0 }
DefaultStatistics ==
    [t |-> "object", average_rating |-> Num(0), total_ratings |-> Num(0)]

\* Mutant: a payload without ratings gives no ratings
transformRatingResponse_EmptyList(resp) ==
    IF Nullish(resp.data) THEN TypeError
    ELSE LET d == resp.data
         IN [ t |-> "object",
              ratings |-> Or(d.ratings, Arr(<<>>)),
              statistics |-> Or(d.statistics, DefaultStatistics) ]

\* export const transformRatingResponse = (response) => ({
\*   ratings: response.data.ratings || [response.data],
\*   statistics: response.data.statistics || { average_rating: 0, total_ratings: 0 } })
transformRatingResponse(resp) ==
    IF Nullish(resp.data) THEN TypeError
    ELSE LET d == resp.data
         IN [ t |-> "object",
              ratings |-> Or(d.ratings, Arr(<<d>>)),
              statistics |-> Or(d.statistics, DefaultStatistics) ]

\* A view hands a response to transformTaskResponse
TransformTask ==
    /\ transformed = NotTransformed
    /\ transformed' = transformTaskResponse(response)
    /\ UNCHANGED <<currentUser, got, req, response>>
    /\ UNCHANGED authVars
    /\ UNCHANGED uiVars
    /\ UNCHANGED appVars

InitT ==
    /\ currentUser = JNull
    /\ user = JNull
    /\ loading = TRUE
    /\ phase = "unmounted"
    /\ got = JNull
    /\ req = IdleRequest
    /\ response \in Responses
    /\ transformed = NotTransformed
    /\ errorState = JNull
    /\ InitApp

\* A view hands a response to transformRatingResponse
TransformRating ==
    /\ transformed = NotTransformed
    /\ transformed' = transformRatingResponse(response)
    /\ UNCHANGED <<currentUser, got, req, response>>
    /\ UNCHANGED authVars
    /\ UNCHANGED uiVars
    /\ UNCHANGED appVars

NextT ==
    \/ TransformTask
    \/ TransformRating

SpecT == InitT /\ [][NextT]_vars

(***************************************************************************)
(* Specifications of the views and of the profile update                   *)
(***************************************************************************)
NextV ==
    \/ \E c \in Views : Show(c)
    \/ \E t \in TaskIds : AcceptClick(t)
    \/ \E key \in {"posted", "accepted"} : SwitchTab(key)
    \/ \E b \in BOOLEAN : ShowCreateForm(b)
    \/ CreateTaskSubmit
    \/ \E t \in TaskIds : CompleteClick(t)
    \/ \E b \in BOOLEAN : SetIsEditing(b)
    \/ \E n \in Names : EditFullName(n)
    \/ SaveProfileSubmit
    \/ \E b \in BOOLEAN : ShowRatingForm(b)
    \/ \E star \in Stars : StarClick(star)
    \/ CreateRatingSubmit
    \/ \E b \in BOOLEAN : ShowReportForm(b)
    \/ CreateReportSubmit
    \/ \E i \in DOMAIN pending : \E ok \in BOOLEAN : Settle(i, ok)

SpecV == Init /\ [][NextV]_vars

\* The application as SkillSwapApp wires it: the spinner until the profile
\* fetch has settled, then the header's tabs
InitA ==
    /\ currentUser = JNull
    /\ user = JNull
    /\ loading = TRUE
    /\ phase = "unmounted"
    /\ got = JNull
    /\ req = IdleRequest
    /\ response = NoResponse
    /\ transformed = NotTransformed
    /\ errorState = JNull
    /\ view = Unmounted
    /\ pending = <<>>
    /\ server = [t \in TaskIds |-> IF t = 1 THEN "open" ELSE "none"]
    /\ profileData = NoPayload
    /\ updatedUser = NotUpdated
    /\ filterInput = NoFilterInput
    /\ filteredTasks = NotFiltered
    /\ root = InitialRoot

NextA ==
    \/ \E ok \in BOOLEAN : FetchUserProfile(ok)
    \/ \E tab \in HeaderTabs : Nav(tab)
    \/ \E t \in TaskIds : AcceptClick(t)
    \/ \E key \in {"posted", "accepted"} : SwitchTab(key)
    \/ \E b \in BOOLEAN : ShowCreateForm(b)
    \/ CreateTaskSubmit
    \/ \E t \in TaskIds : CompleteClick(t)
    \/ \E b \in BOOLEAN : SetIsEditing(b)
    \/ \E n \in Names : EditFullName(n)
    \/ SaveProfileSubmit
    \/ \E b \in BOOLEAN : ShowRatingForm(b)
    \/ \E star \in Stars : StarClick(star)
    \/ CreateRatingSubmit
    \/ \E i \in DOMAIN pending : \E ok \in BOOLEAN : Settle(i, ok)

SpecA == InitA /\ [][NextA]_vars

InitP ==
    /\ currentUser = JNull
    /\ user = JNull
    /\ loading = TRUE
    /\ phase = "unmounted"
    /\ got = JNull
    /\ req = IdleRequest
    /\ response = NoResponse
    /\ transformed = NotTransformed
    /\ errorState = JNull
    /\ view = MountState("dashboard")
    /\ pending = MountEffect_Fetch("dashboard")
    /\ server = [t \in TaskIds |-> IF t = 1 THEN "open" ELSE "none"]
    /\ profileData \in ProfilePayloads
    /\ updatedUser = NotUpdated
    /\ filterInput = NoFilterInput
    /\ filteredTasks = NotFiltered
    /\ root = InitialRoot

NextP == UpdateProfile

SpecP == InitP /\ [][NextP]_vars

InitF ==
    /\ currentUser = JNull
    /\ user = JNull
    /\ loading = TRUE
    /\ phase = "unmounted"
    /\ got = JNull
    /\ req = IdleRequest
    /\ response = NoResponse
    /\ transformed = NotTransformed
    /\ errorState = JNull
    /\ view = MountState("dashboard")
    /\ pending = MountEffect_Fetch("dashboard")
    /\ server = [t \in TaskIds |-> IF t = 1 THEN "open" ELSE "none"]
    /\ profileData = NoPayload
    /\ updatedUser = NotUpdated
    /\ filterInput \in FilterInputs
    /\ filteredTasks = NotFiltered
    /\ root = InitialRoot

NextF == RenderDashboard

SpecF == InitF /\ [][NextF]_vars

(***************************************************************************)
(* Properties                                                              *)
(***************************************************************************)
\* A user with a non-empty id
HasNonEmptyId(u) == u # JNull /\ u.id # Undefined /\ u.id # Str("")

RequestInterceptorStep == req.pc = "issued" /\ req'.pc = "sent"

Dispatched == req.pc \in {"sent", "responded", "settled"}

\* C1: whenever the request interceptor handles a request while the Identity
\* Store holds a user with a non-empty id, the outgoing request's x-user-id is
\* that user's id, whatever logins and logouts came before.
C1_HeaderIsStoredId ==
    [][ (RequestInterceptorStep /\ HasNonEmptyId(currentUser))
          => req'.xUserId = currentUser.id ]_vars

C1_Witness ==
    /\ req.pc = "sent"
    /\ HasNonEmptyId(currentUser)
    /\ currentUser.id = Str("u1")
    /\ req.xUserId = Str("u1")
    /\ req.issuedUser = currentUser

\* C2: whenever the request interceptor handles a request while no identity is
\* set (the store holds null, or a user whose id is missing or empty), the
\* outgoing request carries x-user-id "test-user-123" and is dispatched, not
\* failed; mutating calls and reads alike.
C2_FallbackHeader ==
    [][ /\ (RequestInterceptorStep /\ ~HasNonEmptyId(currentUser))
            => (req'.xUserId = Str("test-user-123") /\ req'.sends = 1)
        /\ (req.pc = "issued" /\ ~HasNonEmptyId(currentUser))
            => (req'.pc \in {"issued", "sent"} /\ req'.result = NoResult) ]_vars

C2_Witness ==
    /\ req.pc = "sent"
    /\ Mutating(req.op)
    /\ currentUser = JNull
    /\ req.issuedUser = JNull
    /\ req.xUserId = Str("test-user-123")

\* The header that belongs to the identity u
HeaderOf(u) == IF HasNonEmptyId(u) THEN u.id ELSE Str("test-user-123")

\* C3 (as claimed): the x-user-id of a request is the identity that was stored
\* when the request was issued, even when the identity is changed between the
\* call and the run of the request interceptor.
C3_Original ==
    Dispatched => req.xUserId = HeaderOf(req.issuedUser)

\* C3 (amended): an identity change never reaches a request that is already
\* dispatched (its x-user-id stays what the interceptor attached), and the
\* x-user-id is the identity stored at issue time whenever the identity was
\* not changed between the call and the run of the request interceptor.
C3_DispatchedKeepsIdentity ==
    [][ /\ req.pc \in {"sent", "responded"} => req'.xUserId = req.xUserId
        /\ (RequestInterceptorStep /\ currentUser = req.issuedUser)
            => req'.xUserId = HeaderOf(req.issuedUser) ]_vars

C3_Witness ==
    /\ req.pc = "responded"
    /\ req.issuedUser # JNull
    /\ req.issuedUser.id = Str("u1")
    /\ req.xUserId = Str("u1")
    /\ currentUser = JNull

\* C4: login(u) makes getCurrentUser() return u, logout() makes it return
\* null, whatever the store held before; a getCurrentUser() call returns the
\* stored identity and leaves it as it was.
C4_LoginLogoutRead ==
    [][ /\ \A u \in Users : login(u) => getCurrentUser' = u
        /\ logout => getCurrentUser' = JNull
        /\ GetCurrentUser => (got' = currentUser /\ currentUser' = currentUser) ]_vars

C4_Witness ==
    /\ phase = "mounted"
    /\ got # JNull
    /\ got.id = Str("u1")
    /\ currentUser = got

\* C5: the user state of AuthProvider and the user of the Identity Store hold
\* the same value in every reachable state.
C5_BindingMatchesStore ==
    user = currentUser

C5_Witness ==
    /\ phase = "mounted"
    /\ user # JNull
    /\ user.id = Str("u1")
    /\ currentUser = user

ChildrenRendered == phase \in {"rendered", "mounted"}

\* C6 (as claimed): children are rendered only once the test identity has been
\* installed into the Identity Store and loading has been cleared.
C6_Original ==
    ChildrenRendered => (phase = "mounted" /\ loading = FALSE)

ResponseInterceptorStep == req.pc = "responded" /\ req'.pc = "settled"

\* C7: a 401 response reaches the caller as a rejection, leaves the stored
\* identity (store and binding) as it was, and the request is not sent again.
C7_UnauthorizedSurfaces ==
    [][ (ResponseInterceptorStep /\ req.outcome.status = 401)
          => /\ req'.result.state = "rejected"
             /\ req'.result.value.status = 401
             /\ currentUser' = currentUser
             /\ user' = user
             /\ req'.sends = 1 ]_vars

C7_Witness ==
    /\ req.pc = "settled"
    /\ req.outcome.status = 401
    /\ req.result.state = "rejected"
    /\ req.logged
    /\ HasNonEmptyId(currentUser)

\* C8: every outcome reaches the caller unchanged: a successful response
\* fulfils the call with that response, every failure (error status, network
\* failure, timeout) rejects it with that error.
C8_OutcomePropagated ==
    req.pc = "settled" =>
        /\ req.result.value = req.outcome
        /\ req.result.state =
              IF req.outcome.kind = "response" /\ req.outcome.status = 200
              THEN "fulfilled" ELSE "rejected"

C8_Witness ==
    /\ req.pc = "settled"
    /\ req.outcome.kind = "timeout"
    /\ req.result = [state |-> "rejected", value |-> req.outcome]

\* A field that is present: neither undefined nor null
Present(x) == x.t \notin {"undefined", "null"}

Transformed ==
    /\ transformed # NotTransformed
    /\ transformed # TypeError
    /\ "tasks" \in DOMAIN transformed

\* C9: the tasks of the result are the payload's tasks field if present, else
\* its items field if present, else the one-element sequence holding the
\* payload itself.
C9_TaskSequence ==
    Transformed =>
        transformed.tasks =
            IF Present(response.data.tasks) THEN response.data.tasks
            ELSE IF Present(response.data.items) THEN response.data.items
            ELSE Arr(<<response.data>>)

C9_Witness ==
    /\ Transformed
    /\ response.data.tasks = Undefined
    /\ response.data.items = Undefined
    /\ response.data.task_id = Str("x")
    /\ transformed.tasks = Arr(<<response.data>>)

\* The sequence transformTaskResponse returns as tasks, as C9 states it
ChosenSequence(d) ==
    IF Present(d.tasks) THEN d.tasks
    ELSE IF Present(d.items) THEN d.items
    ELSE Arr(<<d>>)

\* C10 (as claimed): count is the payload's count when it has one, else the
\* length of the chosen task sequence, whether it came from tasks or items.
C10_Original ==
    Transformed =>
        transformed.count =
            IF Present(response.data.count) THEN response.data.count
            ELSE Num(Len(ChosenSequence(response.data).v))

TransformedRating ==
    /\ transformed # NotTransformed
    /\ transformed # TypeError
    /\ "ratings" \in DOMAIN transformed

\* C11: the ratings of the result are the payload's ratings field if present,
\* else the one-element sequence holding the payload; its statistics are the
\* payload's statistics if present, else {average_rating: 0, total_ratings: 0};
\* for the payload {} the result is {ratings: [{}], statistics: {0, 0}}.
C11_RatingTransform ==
    TransformedRating =>
        /\ transformed.ratings =
              IF Present(response.data.ratings) THEN response.data.ratings
              ELSE Arr(<<response.data>>)
        /\ transformed.statistics =
              IF Present(response.data.statistics) THEN response.data.statistics
              ELSE [t |-> "object", average_rating |-> Num(0),
                    total_ratings |-> Num(0)]
        /\ response.data = EmptyPayload =>
              transformed = [ t |-> "object", ratings |-> Arr(<<EmptyPayload>>),
                              statistics |-> [t |-> "object",
                                              average_rating |-> Num(0),
                                              total_ratings |-> Num(0)] ]

C11_Witness ==
    /\ TransformedRating
    /\ response.data = EmptyPayload
    /\ transformed.ratings = Arr(<<EmptyPayload>>)
    /\ transformed.statistics.total_ratings = Num(0)

\* C12 (as claimed): a transformer never throws, whatever response it is
\* given, a response whose payload is null or absent included.
C12_Original ==
    transformed # TypeError


(***************************************************************************)
(* Resource access functions and error handling (SpecR)                    *)
(***************************************************************************)
\* The route table of the specification: operation, method, route
RouteTable ==
    [ getProfile          |-> <<"GET",    <<"users", "me">>>>,
      updateProfile       |-> <<"PUT",    <<"users", "">>>>,
      createUser          |-> <<"POST",   <<"users", "">>>>,
      getOpenTasks        |-> <<"GET",    <<"tasks", "open">>>>,
      getMyPostedTasks    |-> <<"GET",    <<"tasks", "my", "posted">>>>,
      getMyAcceptedTasks  |-> <<"GET",    <<"tasks", "my", "accepted">>>>,
      createTask          |-> <<"POST",   <<"tasks", "">>>>,
      acceptTask          |-> <<"POST",   <<"tasks", "{id}", "accept">>>>,
      completeTask        |-> <<"POST",   <<"tasks", "{id}", "complete">>>>,
      deleteTask          |-> <<"DELETE", <<"tasks", "{id}">>>>,
      getMyRatings        |-> <<"GET",    <<"ratings", "my", "received">>>>,
      getMyGivenRatings   |-> <<"GET",    <<"ratings", "my", "given">>>>,
      createRating        |-> <<"POST",   <<"ratings", "">>>>,
      flagRating          |-> <<"POST",   <<"ratings", "{id}", "flag">>>>,
      createReport        |-> <<"POST",   <<"reports", "">>>>,
      getMyReports        |-> <<"GET",    <<"reports", "my", "sent">>>>,
      getReportsAgainstMe |-> <<"GET",    <<"reports", "my", "received">>>> ]

\* The route with the identifier in the place of its {id} segment
RouteFor(op, id) ==
    LET route == RouteTable[op][2]
    IN [i \in 1..Len(route) |-> IF route[i] = "{id}" THEN id ELSE route[i]]

HasPathId(op) == \E i \in DOMAIN RouteTable[op][2] : RouteTable[op][2][i] = "{id}"

\* C13: every request a resource function makes uses the method and the route
\* of the table, with the given identifier filling the path's {id} segment,
\* and flagRating posts to /ratings/{id}/flag with an empty body and the
\* reason as the query parameter flag_reason.
C13_RouteTable ==
    (req.pc # "idle") =>
        /\ DOMAIN RouteTable = Operations
        /\ req.config.method = RouteTable[req.op][1]
        /\ ~HasPathId(req.op) => req.config.url = RouteTable[req.op][2]
        /\ (HasPathId(req.op) /\ req.args[1].t = "string") =>
               req.config.url = RouteFor(req.op, req.args[1].v)
        /\ (req.op = "flagRating") =>
               /\ req.config.data = JNull
               /\ req.config.params = [t |-> "object", flag_reason |-> req.args[2]]

C13_Witness ==
    /\ req.pc = "sent"
    /\ req.op = "flagRating"
    /\ req.args = <<Str("T2"), Str("spam")>>
    /\ req.config.url = <<"ratings", "T2", "flag">>

\* C14: a call has issued no request before its request interceptor ran and
\* exactly one from then on, whatever its outcome; acceptTask("T1") is one
\* POST to /tasks/T1/accept without a body.
C14_OneRequestPerCall ==
    /\ (req.pc \in {"idle", "issued"}) => req.sends = 0
    /\ (req.pc \in {"sent", "responded", "settled"}) => req.sends = 1
    /\ (req.pc # "idle" /\ req.op = "acceptTask" /\ req.args[1] = Str("T1")) =>
           req.config = [method |-> "POST", url |-> <<"tasks", "T1", "accept">>,
                         data |-> Undefined, params |-> Undefined]

C14_Witness ==
    /\ req.pc = "settled"
    /\ req.op = "acceptTask"
    /\ req.args[1] = Str("T1")
    /\ req.result.state = "rejected"
    /\ req.sends = 1

\* The message the specification gives for an outcome
ExpectedMessage(o) ==
    IF o.kind = "response" /\ o.detail.t = "string" /\ o.detail.v # ""
    THEN o.detail
    ELSE Str("An unexpected error occurred")

\* C15: the error state is set only from a rejected call, whose error carries
\* the status of the response; it is then the detail of the response, or the
\* generic message when the response has no detail or there was no response;
\* clearError leaves no error.
C15_ErrorSurfaced ==
    [][ /\ (errorState' # errorState /\ errorState' # JNull) =>
               /\ req.pc = "settled"
               /\ req.result.state = "rejected"
               /\ ~Resolves(req.outcome)
               /\ req.outcome.kind = "response" =>
                      req.result.value.status = req.outcome.status
               /\ errorState' = ExpectedMessage(req.outcome)
        /\ (errorState' # errorState /\ errorState' = JNull) => ClearError
        /\ ClearError => errorState' = JNull ]_vars

C15_Witness ==
    /\ req.pc = "settled"
    /\ req.outcome.kind = "response"
    /\ req.outcome.status = 404
    /\ errorState = Str("Task not found")


(***************************************************************************)
(* The views (SpecV) and the profile update (SpecP)                        *)
(***************************************************************************)
\* The handlers of the user actions: accept a task, create a task, complete a
\* task, save the profile, submit a rating, submit a report
UserActions ==
    [ handleAcceptTask   |-> "acceptTask",
      handleCreateTask   |-> "createTask",
      handleCompleteTask |-> "completeTask",
      handleSaveProfile  |-> "updateProfile",
      handleCreateRating |-> "createRating",
      handleCreateReport |-> "createReport" ]

IsUserAction(p) == p.handler \in DOMAIN UserActions

\* C16 (as claimed): a user action issues one request.
C16_Original ==
    \A i \in DOMAIN pending :
        IsUserAction(pending[i]) => pending[i].calls <= 1

\* The read that reloads the list a handler changed
ReloadRead ==
    [ handleAcceptTask   |-> "getOpenTasks",
      handleCreateTask   |-> "getMyPostedTasks",
      handleCompleteTask |-> "getMyAcceptedTasks",
      handleCreateRating |-> "getMyRatings" ]

OneMutationThenReload(p) ==
    \/ /\ p.stage = "mutation"
       /\ p.calls = 1
       /\ p.op = UserActions[p.handler]
    \/ /\ p.stage = "refresh"
       /\ p.calls = 2
       /\ p.handler \in DOMAIN ReloadRead
       /\ p.op = ReloadRead[p.handler]
       /\ ~Mutating(p.op)

Reloading(ps) == {j \in DOMAIN ps : ps[j].stage = "refresh"}

\* A step in which a handler goes on to its reload
StartsReload == Cardinality(Reloading(pending')) > Cardinality(Reloading(pending))

\* C16 (amended): a user action issues one mutating request and awaits its
\* response; accepting, creating and completing a task and submitting a rating
\* then issue one read that reloads the list, and only when the mutating
\* request succeeded; saving the profile and submitting a report issue nothing
\* more; no request is issued again.
C16_OneMutationOneReload ==
    [][ /\ \A j \in DOMAIN pending' :
              IsUserAction(pending'[j]) => OneMutationThenReload(pending'[j])
        /\ StartsReload =>
              \E i \in DOMAIN pending :
                  /\ pending[i].stage = "mutation"
                  /\ Accepts(pending[i])
                  /\ Settle(i, TRUE) ]_vars

C16_Witness ==
    \E i \in DOMAIN pending :
        /\ pending[i].handler = "handleAcceptTask"
        /\ pending[i].stage = "refresh"
        /\ pending[i].op = "getOpenTasks"
        /\ pending[i].calls = 2
        /\ server[pending[i].taskId] = "accepted"

\* C17 (as claimed): the user updateProfile resolves with has the id the user
\* had before, whatever the payload.
C17_Original ==
    updatedUser # NotUpdated => updatedUser.id = mockUser.id

Rank(st) ==
    CASE st = "none" -> 0
      [] st = "open" -> 1
      [] st = "accepted" -> 2
      [] st = "completed" -> 3

C20_RatingInRange ==
    /\ view.name = "ratings" => view.newRating.rating \in 1..5
    /\ \A i \in DOMAIN pending :
           pending[i].op = "createRating" => pending[i].data.rating \in 1..5

C20_Witness ==
    /\ view.name = "ratings"
    /\ view.newRating.rating = 3
    /\ \E i \in DOMAIN pending :
           pending[i].op = "createRating" /\ pending[i].data.rating = 3


(***************************************************************************)
(* The search filter (SpecF)                                               *)
(***************************************************************************)
SameLetter(c, d) == c = d \/ {c, d} = {"a", "A"}

\* q occurs in s when case is ignored
OccursIgnoringCase(q, s) ==
    \E from \in 0..(Len(s) - Len(q)) :
        \A k \in 1..Len(q) : SameLetter(s[from + k], q[k])

\* The task is to be shown for the query
ToBeShown(task, q) ==
    \/ OccursIgnoringCase(q, task.title)
    \/ \E i \in DOMAIN task.tags : OccursIgnoringCase(q, task.tags[i])

\* C21: the Dashboard shows exactly the fetched tasks whose title or one of
\* whose tags contains the search query when case is ignored, in the order
\* fetched; with an empty query it shows every fetched task; the fetched list
\* and the query are left as they were.
C21_SearchFilter ==
    [][ /\ filterInput' = filterInput
        /\ LET in == filterInput'.tasks
               q == filterInput'.searchQuery
               out == filteredTasks'.tasks
               shown == {i \in DOMAIN in : ToBeShown(in[i], q)}
           IN filteredTasks'.rendered =>
                 /\ Len(out) = Cardinality(shown)
                 /\ \A i \in DOMAIN in :
                        (i \in shown) <=> (\E j \in DOMAIN out : out[j] = in[i])
                 /\ \A j \in DOMAIN out : \E i \in shown : out[j] = in[i]
                 /\ q = <<>> => out = in ]_vars

C21_Witness ==
    /\ filterInput.searchQuery = <<"a">>
    /\ filterInput.tasks = << [title |-> <<"b">>, tags |-> <<<<"A">>>>],
                              OtherTask >>
    /\ filteredTasks.rendered
    /\ filteredTasks.tasks = filterInput.tasks


(***************************************************************************)
(* The application (SpecA)                                                 *)
(***************************************************************************)
HasLoading(v) == v.name \in {"dashboard", "my-tasks", "ratings"}
HasTasks(v) == v.name \in {"dashboard", "my-tasks"}

\* An effect's fetch of the mounted view is outstanding
Fetching(ps) == \E i \in DOMAIN ps : ps[i].stage = "only" /\ ps[i].alive

\* C22: when the mount fetch of SkillSwapApp, Dashboard, MyTasks or Ratings
\* settles, fulfilled or rejected, the loading flag is cleared in that step; a
\* rejected fetch leaves the user or the task list as it was; and no view is
\* loading unless a fetch of it is outstanding.
C22_LoadingCleared ==
    [][ /\ \A ok \in BOOLEAN : FetchUserProfile(ok) =>
              /\ ~root'.loading
              /\ ok \/ root'.user = root.user
        /\ (~root.loading) => ~root'.loading
        /\ \A i \in DOMAIN pending : \A ok \in BOOLEAN :
              (Settle(i, ok) /\ pending[i].stage = "only" /\ pending[i].alive) =>
                  /\ ~view'.loading
                  /\ (~ok /\ HasTasks(view)) => view'.tasks = view.tasks
        /\ (HasLoading(view') /\ ~Fetching(pending')) => ~view'.loading ]_vars

C22_Witness ==
    /\ ~root.loading
    /\ root.user = JNull
    /\ view.name = "my-tasks"
    /\ view.rejected
    /\ ~view.loading
    /\ view.tasks = NoTasks
    /\ pending = <<>>

\* The call that fetches the list of a tab
FetchOf(tab) ==
    IF tab = "posted" THEN "getMyPostedTasks" ELSE "getMyAcceptedTasks"

\* C23 (as claimed): in MyTasks, when no request is outstanding and none was
\* rejected, the displayed list is the one fetched for the active tab.
C23_Original ==
    (view.name = "my-tasks" /\ pending = <<>> /\ ~view.rejected) =>
        view.tasksFrom = FetchOf(view.activeTaskTab)

\* The handlers that call the backend twice
Reloaders ==
    {"handleAcceptTask", "handleCreateTask", "handleCompleteTask",
     "handleCreateRating"}

\* C24 (as claimed): a user action never shows both the success and the error
\* notification, and shows the error notification only when its mutating call
\* failed, leaving the view as it was.
C24_Original ==
    [][ \A i \in DOMAIN pending : \A ok \in BOOLEAN :
            (Settle(i, ok) /\ pending[i].handler \in Reloaders) =>
                LET p == pending[i]
                    now == Alerts(p, ok)
                IN /\ ~({"success", "error"} \subseteq (p.alerted \cup now))
                   /\ ("error" \in now) => p.stage = "mutation"
                   /\ ("error" \in now /\ p.alive) => view' = view ]_vars

\* C25: the active tab is one of the four tabs of the header; the Reports view
\* is never mounted and createReport is never called.
C25_ReportsUnreachable ==
    /\ root.activeTab \in {"dashboard", "my-tasks", "profile", "ratings"}
    /\ view.name # "reports"
    /\ \A i \in DOMAIN pending :
           pending[i].op # "createReport" /\ pending[i].handler # "handleCreateReport"

C25_Witness ==
    /\ ~root.loading
    /\ root.activeTab = "ratings"
    /\ view.name = "ratings"
    /\ view.showRatingForm
    /\ \E i \in DOMAIN pending : pending[i].op = "createRating"

====
